---- MODULE Spec2Model ----
(***************************************************************************)
(* Sequence features of bpp-seq-omics: the strand-aware coordinate range   *)
(* SeqRange, the feature record BasicSequenceFeature and the owning        *)
(* container SequenceFeatureSet (src/Bpp/Seq/Feature/SequenceFeature.h),  *)
(* and the result objects MafStatisticsResult and                          *)
(* SimpleMafStatisticsResult (src/Bpp/Seq/Io/Maf/MafStatistics.h).         *)
(*                                                                         *)
(* Objects created with new live in heap, a map from addresses to feature  *)
(* records; a SequenceFeatureSet is its vector features_ of addresses.     *)
(* The caller's own feature object sits at address FAddr, the caller's own *)
(* SeqRange object in rng.                                                 *)
(***************************************************************************)
EXTENDS Integers, Sequences, FiniteSets, TLC

VARIABLES
    heap,   \* address -> BasicSequenceFeature record, for every live object
    sets,   \* set name -> NoSet, or the SequenceFeatureSet object of that name
    rng,    \* the caller's SeqRange object
    edits,  \* number of mutator calls made on the caller's feature so far
    stats,  \* object name -> the MafStatisticsResult object of that name
    last    \* the call that produced this state: its name, arguments, result

vars == <<heap, sets, rng, edits, stats, last>>

----------------------------------------------------------------------------
(* Bounds of the model. *)

\* Coordinates range over 0 .. MaxCoord.
MaxCoord == 3
\* A SequenceFeatureSet is grown up to MaxFeatures elements.
MaxFeatures == 2
\* While the caller mutates its feature, a set is grown up to MaxStored elements.
MaxStored == 2
\* The caller mutates its feature object at most MaxEdits times.
MaxEdits == 1

Coords == 0 .. MaxCoord

\* The four strand symbols the constructors accept (line 49).
Strands == {"+", "-", ".", "?"}
\* Characters handed to the constructors: the four symbols and a foreign one.
Chars == Strands \cup {"x"}

SeqIds == {"chr1", "chr2"}
Types == {"gene", "exon"}
AttrNames == {"k"}
AttrValues == {"", "v"}

----------------------------------------------------------------------------
(* Range<size_t> of bpp-core, the base class of SeqRange. *)

\* Range<size_t>(a, b) for a <= b, the caller's contract.
Range(a, b) == [begin |-> a, end |-> b]

\* The ranges the model draws: every [a, b) with a <= b within the bound.
Ranges == {Range(a, b) : a \in Coords, b \in Coords} \cap
          {rg \in [begin : Coords, end : Coords] : rg.begin <= rg.end}

\* Range::overlap: the two half-open intervals share at least one coordinate.
RangeOverlap(r1, r2) ==
    \E x \in Coords : /\ r1.begin <= x /\ x < r1.end
                      /\ r2.begin <= x /\ x < r2.end

\* Range::contains: r2 lies within r1, bounds included.
RangeContains(r1, r2) == r2.begin >= r1.begin /\ r2.end <= r1.end

----------------------------------------------------------------------------
(* SeqRange *)

\* SeqRange(a, b, strand) without the normalisation of the strand.
SeqRangeRaw(a, b, strand) == [begin |-> a, end |-> b, strand_ |-> strand]

\* SeqRange(size_t a, size_t b, char strand)
SeqRange(a, b, strand) ==
    LET r == Range(a, b)
    IN  [begin |-> r.begin, end |-> r.end,
         strand_ |-> IF strand # "+" /\ strand # "-" /\ strand # "?" /\ strand # "."
                     THEN "." ELSE strand]

\* SeqRange(const Range<size_t> range, char strand)
SeqRangeFromRange(range, strand) ==
    [begin |-> range.begin, end |-> range.end,
     strand_ |-> IF strand # "+" /\ strand # "-" /\ strand # "?" /\ strand # "."
                 THEN "." ELSE strand]

getStrand(r) == r.strand_
isNegativeStrand(r) == r.strand_ = "-"
isStranded(r) == r.strand_ = "+" \/ r.strand_ = "-"

\* invert() without the isStranded() test.
invertUnguarded(r) ==
    IF isNegativeStrand(r) THEN [r EXCEPT !.strand_ = "+"]
    ELSE [r EXCEPT !.strand_ = "-"]

\* SeqRange::invert
invert(r) ==
    IF isStranded(r)
    THEN IF isNegativeStrand(r)
         THEN [r EXCEPT !.strand_ = "+"]
         ELSE [r EXCEPT !.strand_ = "-"]
    ELSE r

\* The positional part of a SeqRange, as its base class sees it.
AsRange(r) == [begin |-> r.begin, end |-> r.end]

----------------------------------------------------------------------------
(* std::map<std::string, std::string> *)

EmptyMap == [k \in {} |-> ""]
MapPut(m, k, v) == [x \in DOMAIN m \cup {k} |-> IF x = k THEN v ELSE m[x]]
MapErase(m, k) == [x \in DOMAIN m \ {k} |-> m[x]]

----------------------------------------------------------------------------
(* BasicSequenceFeature *)

\* BasicSequenceFeature()
DefaultFeature ==
    [id_ |-> "", sequenceId_ |-> "", source_ |-> "", type_ |-> "",
     range_ |-> SeqRange(0, 0, "."), score_ |-> -1, attributes_ |-> EmptyMap]

\* BasicSequenceFeature(id, seqId, source, type, start, end, strand, score)
BasicSequenceFeature(id, seqId, source, type, start, end, strand, score) ==
    [id_ |-> id, sequenceId_ |-> seqId, source_ |-> source, type_ |-> type,
     range_ |-> SeqRange(start, end, strand), score_ |-> score,
     attributes_ |-> EmptyMap]

getId(f) == f.id_
setId(f, id) == [f EXCEPT !.id_ = id]
getSequenceId(f) == f.sequenceId_
setSequenceId(f, sid) == [f EXCEPT !.sequenceId_ = sid]
getSource(f) == f.source_
setSource(f, source) == [f EXCEPT !.source_ = source]
getType(f) == f.type_
setType(f, type) == [f EXCEPT !.type_ = type]
getStart(f) == f.range_.begin
getEnd(f) == f.range_.end
getScore(f) == f.score_
setScore(f, score) == [f EXCEPT !.score_ = score]

\* SequenceFeature::size; start <= end, so the subtraction does not wrap.
size(f) == getEnd(f) - getStart(f)
isEmpty(f) == size(f) = 0

\* isPoint() that also answers true for an empty feature.
isPointAtMost(f) == size(f) <= 1

isPoint(f) == size(f) = 1

\* BasicSequenceFeature::invert
invertFeature(f) == [f EXCEPT !.range_ = invert(f.range_)]

\* The static string SequenceFeature::NO_ATTRIBUTE_SET (declared at line 110):
\* an object of its own, apart from every string a feature stores.
NO_ATTRIBUTE_SET == <<"NO_ATTRIBUTE_SET">>

\* The string of an entry of attributes_ (it->second), holding value.
Entry(value) == <<"entry", value>>

\* const std::string& getAttribute(name) const: the string it refers to.
getAttribute(f, name) ==
    IF name \in DOMAIN f.attributes_ THEN Entry(f.attributes_[name])
    ELSE NO_ATTRIBUTE_SET

\* The non-const getAttribute reading through find(): no entry is created.
getAttributeMutableFind(f, name) == f

\* std::string& getAttribute(name): attributes_[name] creates the entry.
getAttributeMutable(f, name) ==
    IF name \in DOMAIN f.attributes_ THEN f
    ELSE [f EXCEPT !.attributes_ = MapPut(f.attributes_, name, "")]

\* setAttribute through std::map::insert, which keeps an existing entry.
setAttributeInsert(f, name, value) ==
    IF name \in DOMAIN f.attributes_ THEN f
    ELSE [f EXCEPT !.attributes_ = MapPut(f.attributes_, name, value)]

setAttribute(f, name, value) ==
    [f EXCEPT !.attributes_ = MapPut(f.attributes_, name, value)]

getAttributeList(f) == DOMAIN f.attributes_

removeAttribute(f, name) ==
    IF name \in DOMAIN f.attributes_
    THEN [f EXCEPT !.attributes_ = MapErase(f.attributes_, name)]
    ELSE f

\* getRange: a copy of range_.
getRange(f) == f.range_

\* overlap(feat) without the test of the sequence id.
overlapFeatureAnySequence(f, feat) ==
    RangeOverlap(AsRange(f.range_), AsRange(getRange(feat)))

\* overlap(const SequenceFeature& feat)
overlapFeature(f, feat) ==
    IF getSequenceId(feat) = f.sequenceId_
    THEN RangeOverlap(AsRange(f.range_), AsRange(getRange(feat)))
    ELSE FALSE

\* overlap(range) that also counts a range starting where the feature ends.
overlapRangeTouching(f, range) ==
    RangeOverlap(AsRange(f.range_), AsRange(range)) \/ range.begin = f.range_.end

\* overlap(const SeqRange& range)
overlapRange(f, range) == RangeOverlap(AsRange(f.range_), AsRange(range))

\* includes(const SeqRange& range)
includes(f, range) == RangeContains(AsRange(f.range_), AsRange(range))

\* isIncludedIn(range) with the containment turned around.
isIncludedInReversed(f, range) == RangeContains(AsRange(f.range_), AsRange(range))

\* isIncludedIn(const SeqRange& range)
isIncludedIn(f, range) == RangeContains(AsRange(range), AsRange(f.range_))

----------------------------------------------------------------------------
(* The heap and SequenceFeatureSet *)

\* The address of the caller's own feature object, the one handed to addFeature.
FAddr == 0
\* The addresses operator new hands out.
HeapAddrs == 1 .. (2 * (MaxFeatures + MaxStored))

SetIds == {"A", "B"}

\* The object an address points to. No pointer of the program outlives its
\* object (NoDangling); what a read through one would find is left open.
deref(h, p) == IF p \in DOMAIN h THEN h[p] ELSE [deleted |-> TRUE]

\* operator new: the address of the fresh object (the lowest free one).
FreshAddr(h) ==
    CHOOSE a \in HeapAddrs \ DOMAIN h : \A b \in HeapAddrs \ DOMAIN h : a <= b

\* clone() that hands back the object itself.
cloneShallow(h, p) == [heap |-> h, ptr |-> p]

\* BasicSequenceFeature::clone: new BasicSequenceFeature(*this)
clone(h, p) ==
    LET a == FreshAddr(h)
    IN  [heap |-> [x \in DOMAIN h \cup {a} |-> IF x = a THEN deref(h, p) ELSE h[x]],
         ptr |-> a]

\* addFeature that puts the clone in front of the elements.
addFeatureFront(h, v, p) ==
    LET c == clone(h, p)
    IN  [heap |-> c.heap, vec |-> <<c.ptr>> \o v]

\* SequenceFeatureSet::addFeature: features_.push_back(feature.clone())
addFeature(h, v, p) ==
    LET c == clone(h, p)
    IN  [heap |-> c.heap, vec |-> Append(v, c.ptr)]

\* The addresses a vector holds.
Elems(v) == {v[i] : i \in 1 .. Len(v)}

\* SequenceFeatureSet::clear: delete every element, then features_.clear()
clear(h, v) ==
    [heap |-> [x \in DOMAIN h \ Elems(v) |-> h[x]], vec |-> <<>>]

\* The loop of the copy constructor and of operator=:
\* features_.push_back((**it).clone()) for every it of sfs.features_
RECURSIVE cloneAll(_, _, _)
cloneAll(h, src, acc) ==
    IF src = <<>> THEN [heap |-> h, vec |-> acc]
    ELSE LET c == clone(h, Head(src))
         IN  cloneAll(c.heap, Tail(src), Append(acc, c.ptr))

\* The subset loop pushing the receiver's own pointers.
addAllShared(h, src, acc) == [heap |-> h, vec |-> acc \o src]

\* The loop of the getSubsetFor* methods once the test has chosen the
\* elements: subset->addFeature(**it) for each of them, in order.
RECURSIVE addAll(_, _, _)
addAll(h, src, acc) ==
    IF src = <<>> THEN [heap |-> h, vec |-> acc]
    ELSE LET r == addFeature(h, acc, Head(src))
         IN  addAll(r.heap, Tail(src), r.vec)

\* Whether a std::vector<std::string> holds a string (std::find).
Contains(list, x) == \E i \in 1 .. Len(list) : list[i] = x

\* getSubsetForType that reads attribute k of every element through the
\* non-const getAttribute before it tests the type.
getSubsetForTypeTouching(h, v, type) ==
    LET h2 == [x \in DOMAIN h |-> IF x \in Elems(v) THEN getAttributeMutable(h[x], "k")
                                  ELSE h[x]]
    IN  addAll(h2, SelectSeq(v, LAMBDA p : getType(deref(h2, p)) = type), <<>>)

getSubsetForType(h, v, type) ==
    addAll(h, SelectSeq(v, LAMBDA p : getType(deref(h, p)) = type), <<>>)

\* getSubsetForTypes with the loop over types outside the loop over the
\* elements: an element is added for every entry of types it matches.
getSubsetForTypesPerEntry(h, v, types) ==
    LET n == Len(types)
        m == Len(v)
        pairs == [k \in 1 .. (n * m) |->
                     <<types[((k - 1) \div m) + 1], v[((k - 1) % m) + 1]>>]
        sel == SelectSeq(pairs, LAMBDA q : getType(deref(h, q[2])) = q[1])
    IN  addAll(h, [k \in 1 .. Len(sel) |-> sel[k][2]], <<>>)

getSubsetForTypes(h, v, types) ==
    addAll(h, SelectSeq(v, LAMBDA p : Contains(types, getType(deref(h, p)))), <<>>)

getSubsetForSequence(h, v, id) ==
    addAll(h, SelectSeq(v, LAMBDA p : getSequenceId(deref(h, p)) = id), <<>>)

\* getSubsetForSequences taking an empty list of ids for no filter at all.
getSubsetForSequencesOrAll(h, v, ids) ==
    addAll(h, SelectSeq(v, LAMBDA p : ids = <<>> \/ Contains(ids, getSequenceId(deref(h, p)))),
           <<>>)

getSubsetForSequences(h, v, ids) ==
    addAll(h, SelectSeq(v, LAMBDA p : Contains(ids, getSequenceId(deref(h, p)))), <<>>)

\* getSubsetForRange with includes in the place of isIncludedIn.
getSubsetForRangeIncludes(h, v, range, complete) ==
    addAll(h,
           SelectSeq(v, LAMBDA p : IF complete
                                   THEN includes(deref(h, p), range)
                                   ELSE overlapRange(deref(h, p), range)),
           <<>>)

getSubsetForRange(h, v, range, complete) ==
    addAll(h,
           SelectSeq(v, LAMBDA p : IF complete
                                   THEN isIncludedIn(deref(h, p), range)
                                   ELSE overlapRange(deref(h, p), range)),
           <<>>)

getSequences(h, v) == {getSequenceId(deref(h, v[i])) : i \in 1 .. Len(v)}
\* getTypes that inserts the sequence id of every element.
getTypesOfSequenceIds(h, v) == {getSequenceId(deref(h, v[i])) : i \in 1 .. Len(v)}

getTypes(h, v) == {getType(deref(h, v[i])) : i \in 1 .. Len(v)}

\* fillRangeCollection that empties coords before it adds.
fillRangeCollectionCleared(h, v, coords) ==
    [i \in 1 .. Len(v) |-> getRange(deref(h, v[i]))]

\* fillRangeCollection: coords.addRange(it->getRange()) for every element;
\* coords is the sequence of the addRange calls it has received.
RECURSIVE fillRangeCollection(_, _, _)
fillRangeCollection(h, v, coords) ==
    IF v = <<>> THEN coords
    ELSE fillRangeCollection(h, Tail(v), Append(coords, getRange(deref(h, Head(v)))))

RECURSIVE fillRangeCollectionForSequence(_, _, _, _)
fillRangeCollectionForSequence(h, v, seqId, coords) ==
    IF v = <<>> THEN coords
    ELSE fillRangeCollectionForSequence(h, Tail(v), seqId,
             IF getSequenceId(deref(h, Head(v))) = seqId
             THEN Append(coords, getRange(deref(h, Head(v))))
             ELSE coords)

getNumberOfFeatures(v) == Len(v)
isEmptySet(v) == Len(v) = 0
\* getFeature(i) and operator[](i): *features_[i]; the model counts i from 1.
getFeature(h, v, i) == deref(h, v[i])
operatorIndex(h, v, i) == deref(h, v[i])

\* A SequenceFeatureSet object: whether it is constructed, and its features_.
\* how records the constructor that made it.
NoSet == [live |-> FALSE, features_ |-> <<>>, how |-> "none"]
NewSet(v, how) == [live |-> TRUE, features_ |-> v, how |-> how]

\* What a reader of set s sees: the values of getFeature(0 .. n-1); a pointer
\* to a deleted object shows as "deleted".
Values(h, v) ==
    [i \in 1 .. Len(v) |-> IF v[i] \in DOMAIN h THEN <<"live", h[v[i]]>>
                           ELSE <<"deleted">>]
ValuesOf(s) == Values(heap, sets[s].features_)

F == heap[FAddr]

----------------------------------------------------------------------------
(* MafStatisticsResult and SimpleMafStatisticsResult *)

StatIds == {"R", "C"}
Tags == {"a", "b"}

\* The BppNumberI objects setValue creates, by overload.
BppDouble(v) == [type |-> "BppDouble", value |-> v]
BppInteger(v) == [type |-> "BppInteger", value |-> v]
BppUnsignedInteger(v) == [type |-> "BppUnsignedInteger", value |-> v]
Numbers == {BppDouble(0), BppDouble(1), BppInteger(0), BppInteger(1),
            BppUnsignedInteger(0), BppUnsignedInteger(1)}

\* A result object: whether it is constructed, its class, name_ (of a
\* SimpleMafStatisticsResult) and the map values_.
NoResult == [live |-> FALSE, class |-> "none", name_ |-> "", values_ |-> EmptyMap]
NoStats == [o \in StatIds |-> NoResult]

\* MafStatisticsResult()
MafStatisticsResult ==
    [live |-> TRUE, class |-> "MafStatisticsResult", name_ |-> "", values_ |-> EmptyMap]

\* The loop of the copy constructor and of operator=, over the map from:
\* values_[it.first].reset(it.second->clone()) for every it of from.
cloneValues(values, from) ==
    [t \in DOMAIN values \cup DOMAIN from |->
        IF t \in DOMAIN from THEN from[t] ELSE values[t]]

\* MafStatisticsResult(const MafStatisticsResult& msr): values_ is
\* initialised empty and the loop runs over values_, the object's own map.
copyResult(msr) ==
    LET values_ == EmptyMap
    IN  [live |-> TRUE, class |-> "MafStatisticsResult", name_ |-> "",
         values_ |-> cloneValues(values_, values_)]

\* operator=(const MafStatisticsResult& msr): values_.clear(), then the loop
\* over values_, the object's own map.
assignResult(this, msr) ==
    LET values_ == EmptyMap
    IN  [this EXCEPT !.values_ = cloneValues(values_, values_)]

\* MafStatisticsResult::getValue(tag): the number found, or the exception.
getValueTagged(r, tag) ==
    IF tag \in DOMAIN r.values_ THEN <<"value", r.values_[tag]>>
    ELSE <<"Exception">>

\* MafStatisticsResult::setValue(tag, value): values_[tag].reset(number),
\* number being the object the overload creates.
setValue(r, tag, number) == [r EXCEPT !.values_ = MapPut(@, tag, number)]

hasValue(r, tag) == tag \in DOMAIN r.values_
getAvailableTags(r) == DOMAIN r.values_

\* SimpleMafStatisticsResult::setValue(value): values_[name_].reset(number)
simpleSetValue(r, number) == [r EXCEPT !.values_ = MapPut(@, r.name_, number)]

\* setValue(tag, value) as the base class has it, without the test of the tag.
simpleSetValueTaggedBase(r, tag, number) ==
    [obj |-> setValue(r, tag, number), threw |-> FALSE]

\* SimpleMafStatisticsResult::setValue(tag, value): the object after the
\* call and whether the call threw.
simpleSetValueTagged(r, tag, number) ==
    IF tag = r.name_ THEN [obj |-> simpleSetValue(r, number), threw |-> FALSE]
    ELSE [obj |-> r, threw |-> TRUE]

\* SimpleMafStatisticsResult(name): setValue(name, 0)
SimpleMafStatisticsResult(name) ==
    simpleSetValueTagged([live |-> TRUE, class |-> "SimpleMafStatisticsResult",
                          name_ |-> name, values_ |-> EmptyMap],
                         name, BppInteger(0)).obj

\* SimpleMafStatisticsResult::getValue(tag)
simpleGetValueTagged(r, tag) == getValueTagged(r, tag)

\* SimpleMafStatisticsResult::getValue(): *values_[name_], name_ being a key.
simpleGetValue(r) == <<"value", r.values_[r.name_]>>

----------------------------------------------------------------------------
(* The predicates of a feature, applied to drawn arguments. *)

PredFeatures ==
    {BasicSequenceFeature("f1", s, "gff", "gene", r.begin, r.end, st, -1) :
        s \in SeqIds, r \in Ranges, st \in {"+", "."}}
PredArgs ==
    {BasicSequenceFeature("f2", s, "gff", "exon", r.begin, r.end, "-", -1) :
        s \in SeqIds, r \in Ranges}
PredRanges == {SeqRange(r.begin, r.end, st) : r \in Ranges, st \in {"+", "-"}}

InitSets == [s \in SetIds |-> IF s = "A" THEN NewSet(<<>>, "default") ELSE NoSet]

InitPred ==
    /\ \E f \in PredFeatures : heap = [a \in {FAddr} |-> f]
    /\ rng \in PredRanges
    /\ sets = InitSets
    /\ edits = 0
    /\ stats = NoStats
    /\ last = [op |-> "init"]

CallOverlapFeature ==
    /\ \E g \in PredArgs :
          last' = [op |-> "overlapFeature", arg |-> g, ret |-> overlapFeature(F, g)]
    /\ UNCHANGED <<stats, heap, sets, rng, edits>>

CallOverlapRange ==
    /\ last' = [op |-> "overlapRange", ret |-> overlapRange(F, rng)]
    /\ UNCHANGED <<stats, heap, sets, rng, edits>>

CallIncludes ==
    /\ last' = [op |-> "includes", ret |-> includes(F, rng)]
    /\ UNCHANGED <<stats, heap, sets, rng, edits>>

CallIsIncludedIn ==
    /\ last' = [op |-> "isIncludedIn", ret |-> isIncludedIn(F, rng)]
    /\ UNCHANGED <<stats, heap, sets, rng, edits>>

NextPred ==
    \/ CallOverlapFeature
    \/ CallOverlapRange
    \/ CallIncludes
    \/ CallIsIncludedIn

SpecPred == InitPred /\ [][NextPred]_vars

----------------------------------------------------------------------------
(* Construction and inversion of ranges and features. *)

Ids == {"f1", "f2"}
Sources == {"gff", "blast"}
Scores == {-1, 1}

\* The ranges this part constructs: empty at both ends of the axis, and full.
StrandRanges == {Range(0, 0), Range(0, MaxCoord), Range(MaxCoord, MaxCoord)}

InitStrand ==
    /\ heap = [a \in {FAddr} |-> DefaultFeature]
    /\ rng = SeqRange(0, 0, ".")
    /\ sets = InitSets
    /\ edits = 0
    /\ stats = NoStats
    /\ last = [op |-> "init"]

\* F = BasicSequenceFeature(id, seqId, source, type, start, end, strand, score)
NewFeature ==
    /\ \E id \in Ids, r \in StrandRanges, ch \in Chars :
          /\ heap' = [heap EXCEPT ![FAddr] =
                         BasicSequenceFeature(id, "chr1", "gff", "gene",
                                              r.begin, r.end, ch, -1)]
          /\ last' = [op |-> "newFeature", ch |-> ch]
    /\ UNCHANGED <<stats, sets, rng, edits>>

\* R = SeqRange(a, b, strand)
NewRange ==
    /\ \E r \in StrandRanges, ch \in Chars :
          /\ rng' = SeqRange(r.begin, r.end, ch)
          /\ last' = [op |-> "newRange", ch |-> ch]
    /\ UNCHANGED <<stats, heap, sets, edits>>

\* R = SeqRange(range, strand)
NewRangeFromRange ==
    /\ \E r \in StrandRanges, ch \in Chars :
          /\ rng' = SeqRangeFromRange(r, ch)
          /\ last' = [op |-> "newRangeFromRange", ch |-> ch]
    /\ UNCHANGED <<stats, heap, sets, edits>>

\* The record of an invert() call: the object before the first of a run of
\* invert() calls, and the length of the run so far (1 or 2).
Inverted(op, before) ==
    IF last.op = op /\ last.n = 1
    THEN [op |-> op, n |-> 2, orig |-> last.orig]
    ELSE [op |-> op, n |-> 1, orig |-> before]

\* R.invert()
InvertRange ==
    /\ rng' = invert(rng)
    /\ last' = Inverted("invertRange", rng)
    /\ UNCHANGED <<stats, heap, sets, edits>>

\* F.invert()
InvertFeature ==
    /\ heap' = [heap EXCEPT ![FAddr] = invertFeature(@)]
    /\ last' = Inverted("invertFeature", F)
    /\ UNCHANGED <<stats, sets, rng, edits>>

\* F.setAttribute(name, value)
StrandSetAttribute ==
    /\ \E k \in AttrNames, v \in AttrValues :
          heap' = [heap EXCEPT ![FAddr] = setAttribute(@, k, v)]
    /\ last' = [op |-> "setAttribute"]
    /\ UNCHANGED <<stats, sets, rng, edits>>

NextStrand ==
    \/ NewFeature
    \/ NewRange
    \/ NewRangeFromRange
    \/ InvertRange
    \/ InvertFeature
    \/ StrandSetAttribute

SpecStrand == InitStrand /\ [][NextStrand]_vars

----------------------------------------------------------------------------
(* The attributes of a feature. *)

AttrKeys == {"k", "k2"}
AttrStrings == {"", "v", "w"}

InitAttr ==
    /\ heap = [a \in {FAddr} |->
                  BasicSequenceFeature("f1", "chr1", "gff", "gene", 0, 1, "+", -1)]
    /\ rng = SeqRange(0, 0, ".")
    /\ sets = InitSets
    /\ edits = 0
    /\ stats = NoStats
    /\ last = [op |-> "init"]

\* F.setAttribute(name, value)
ASetAttribute ==
    /\ \E k \in AttrKeys, v \in AttrStrings :
          /\ heap' = [heap EXCEPT ![FAddr] = setAttribute(@, k, v)]
          /\ last' = [op |-> "setAttribute", name |-> k, value |-> v, before |-> F]
    /\ UNCHANGED <<stats, sets, rng, edits>>

\* F.removeAttribute(name)
ARemoveAttribute ==
    /\ \E k \in AttrKeys :
          /\ heap' = [heap EXCEPT ![FAddr] = removeAttribute(@, k)]
          /\ last' = [op |-> "removeAttribute", name |-> k, before |-> F]
    /\ UNCHANGED <<stats, sets, rng, edits>>

\* F.getAttribute(name) on a const F
AGetAttribute ==
    /\ \E k \in AttrKeys :
          last' = [op |-> "getAttribute", name |-> k, ret |-> getAttribute(F, k),
                   before |-> F]
    /\ UNCHANGED <<stats, heap, sets, rng, edits>>

\* F.getAttribute(name) on a non-const F
AGetAttributeMutable ==
    /\ \E k \in AttrKeys :
          /\ heap' = [heap EXCEPT ![FAddr] = getAttributeMutable(@, k)]
          /\ last' = [op |-> "getAttributeMutable", name |-> k, before |-> F]
    /\ UNCHANGED <<stats, sets, rng, edits>>

NextAttr ==
    \/ ASetAttribute
    \/ ARemoveAttribute
    \/ AGetAttribute
    \/ AGetAttributeMutable

SpecAttr == InitAttr /\ [][NextAttr]_vars

----------------------------------------------------------------------------
(* The size of a feature under its mutators. *)

InitSize ==
    /\ \E r \in Ranges, st \in {"+", "."} :
          heap = [a \in {FAddr} |->
                     BasicSequenceFeature("f1", "chr1", "gff", "gene",
                                          r.begin, r.end, st, -1)]
    /\ rng = SeqRange(0, 0, ".")
    /\ sets = InitSets
    /\ edits = 0
    /\ stats = NoStats
    /\ last = [op |-> "init"]

\* A mutator call that leaves F as f.
Mutate(op, f) ==
    /\ heap' = [heap EXCEPT ![FAddr] = f]
    /\ last' = [op |-> op, before |-> F]
    /\ UNCHANGED <<stats, sets, rng, edits>>

SSetId == \E id \in Ids : Mutate("setId", setId(F, id))
SSetSequenceId == \E sid \in SeqIds : Mutate("setSequenceId", setSequenceId(F, sid))
SSetSource == \E source \in Sources : Mutate("setSource", setSource(F, source))
SSetType == \E type \in Types : Mutate("setType", setType(F, type))
SSetScore == \E score \in Scores : Mutate("setScore", setScore(F, score))
SInvert == Mutate("invert", invertFeature(F))
SSetAttribute ==
    \E k \in AttrNames, v \in AttrValues : Mutate("setAttribute", setAttribute(F, k, v))
SGetAttribute == \E k \in AttrNames : Mutate("getAttribute", getAttributeMutable(F, k))
SRemoveAttribute == \E k \in AttrNames : Mutate("removeAttribute", removeAttribute(F, k))

NextSize ==
    \/ SSetId
    \/ SSetSequenceId
    \/ SSetSource
    \/ SSetType
    \/ SSetScore
    \/ SInvert
    \/ SSetAttribute
    \/ SGetAttribute
    \/ SRemoveAttribute

SpecSize == InitSize /\ [][NextSize]_vars

----------------------------------------------------------------------------
(* Queries on one set: set A is filled, a query is made, the caller takes   *)
(* the result (a subset arrives as the new set B) and drops it.             *)

QueryOps == {"getSubsetForType", "getSubsetForTypes", "getSubsetForSequence",
             "getSubsetForSequences", "getSubsetForRange", "getSequences",
             "getTypes", "fillRangeCollection", "fillRangeCollectionForSequence"}

\* A query has returned and the caller still holds its result.
Pending == last.op \in QueryOps

\* The features added: every range on one sequence and type, with the
\* attribute k, and every sequence id and type on one range.
QueryFeatures ==
    {setAttribute(BasicSequenceFeature("f1", "chr1", "gff", "gene",
                                       r.begin, r.end, "+", -1), "k", "v") :
        r \in Ranges}
    \cup {BasicSequenceFeature("f2", sq, "gff", t, 0, 1, ".", -1) :
             sq \in SeqIds, t \in Types}
QueryRanges == {SeqRange(r.begin, r.end, "-") : r \in Ranges}
\* Arguments of the queries by type and by sequence id: one is carried by no feature.
QueryTypes == Types \cup {"mRNA"}
QuerySeqIds == SeqIds \cup {"chrM"}
TypeLists == {<<>>, <<"gene">>, <<"exon", "gene">>, <<"gene", "gene">>, <<"mRNA">>}
SeqIdLists == {<<>>, <<"chr2">>, <<"chr1", "chr2">>, <<"chr2", "chr2">>, <<"chrM">>}
\* The range collection handed to fillRangeCollection: empty, or holding a range.
Collections == {<<>>, <<SeqRange(0, MaxCoord, "?")>>}

A == sets["A"].features_
B == sets["B"].features_

InitQuery ==
    /\ heap = [a \in {FAddr} |-> DefaultFeature]
    /\ rng = SeqRange(0, 0, ".")
    /\ sets = InitSets
    /\ edits = 0
    /\ stats = NoStats
    /\ last = [op |-> "init"]

\* A.addFeature(f) for a feature f the caller has just constructed in F.
QAddFeature ==
    /\ ~Pending
    /\ Len(A) < MaxFeatures
    /\ \E f \in QueryFeatures :
          LET h == [heap EXCEPT ![FAddr] = f]
              r == addFeature(h, A, FAddr)
          IN  /\ heap' = r.heap
              /\ sets' = [sets EXCEPT !["A"].features_ = r.vec]
    /\ last' = [op |-> "addFeature"]
    /\ UNCHANGED <<stats, rng, edits>>

\* A.clear()
QClear ==
    /\ ~Pending
    /\ LET r == clear(heap, A)
       IN  /\ heap' = r.heap
           /\ sets' = [sets EXCEPT !["A"].features_ = r.vec]
    /\ last' = [op |-> "clear"]
    /\ UNCHANGED <<stats, rng, edits>>

\* The caller receives the subset r of A: it is the new set B.
Returned(r, call) ==
    /\ heap' = r.heap
    /\ sets' = [sets EXCEPT !["B"] = NewSet(r.vec, "subset")]
    /\ last' = call
    /\ UNCHANGED <<stats, rng, edits>>

\* What the receiver held when the call was made.
Before == [self |-> sets["A"], values |-> Values(heap, A)]

QGetSubsetForType ==
    /\ ~Pending
    /\ \E t \in QueryTypes :
          Returned(getSubsetForType(heap, A, t),
                   [op |-> "getSubsetForType", arg |-> t, before |-> Before])

QGetSubsetForTypes ==
    /\ ~Pending
    /\ \E ts \in TypeLists :
          Returned(getSubsetForTypes(heap, A, ts),
                   [op |-> "getSubsetForTypes", arg |-> ts, before |-> Before])

QGetSubsetForSequence ==
    /\ ~Pending
    /\ \E id \in QuerySeqIds :
          Returned(getSubsetForSequence(heap, A, id),
                   [op |-> "getSubsetForSequence", arg |-> id, before |-> Before])

QGetSubsetForSequences ==
    /\ ~Pending
    /\ \E ids \in SeqIdLists :
          Returned(getSubsetForSequences(heap, A, ids),
                   [op |-> "getSubsetForSequences", arg |-> ids, before |-> Before])

QGetSubsetForRange ==
    /\ ~Pending
    /\ \E r \in QueryRanges, c \in BOOLEAN :
          Returned(getSubsetForRange(heap, A, r, c),
                   [op |-> "getSubsetForRange", range |-> r, complete |-> c,
                    before |-> Before])

QGetSequences ==
    /\ ~Pending
    /\ last' = [op |-> "getSequences", ret |-> getSequences(heap, A), before |-> Before]
    /\ UNCHANGED <<stats, heap, sets, rng, edits>>

QGetTypes ==
    /\ ~Pending
    /\ last' = [op |-> "getTypes", ret |-> getTypes(heap, A), before |-> Before]
    /\ UNCHANGED <<stats, heap, sets, rng, edits>>

QFillRangeCollection ==
    /\ ~Pending
    /\ \E coords \in Collections :
          last' = [op |-> "fillRangeCollection", coords |-> coords,
                   ret |-> fillRangeCollection(heap, A, coords), before |-> Before]
    /\ UNCHANGED <<stats, heap, sets, rng, edits>>

QFillRangeCollectionForSequence ==
    /\ ~Pending
    /\ \E coords \in Collections, id \in QuerySeqIds :
          last' = [op |-> "fillRangeCollectionForSequence", coords |-> coords,
                   arg |-> id,
                   ret |-> fillRangeCollectionForSequence(heap, A, id, coords),
                   before |-> Before]
    /\ UNCHANGED <<stats, heap, sets, rng, edits>>

\* The caller drops the result; a subset is deleted (~SequenceFeatureSet).
QDrop ==
    /\ Pending
    /\ LET r == clear(heap, B)
       IN  /\ heap' = r.heap
           /\ sets' = [sets EXCEPT !["B"] = NoSet]
    /\ last' = [op |-> "drop"]
    /\ UNCHANGED <<stats, rng, edits>>

NextQuery ==
    \/ QAddFeature
    \/ QClear
    \/ QGetSubsetForType
    \/ QGetSubsetForTypes
    \/ QGetSubsetForSequence
    \/ QGetSubsetForSequences
    \/ QGetSubsetForRange
    \/ QGetSequences
    \/ QGetTypes
    \/ QFillRangeCollection
    \/ QFillRangeCollectionForSequence
    \/ QDrop

SpecQuery == InitQuery /\ [][NextQuery]_vars

----------------------------------------------------------------------------
(* One set grown and cleared; last.log lists the arguments of the           *)
(* addFeature calls made since the set was created or last cleared, and     *)
(* last.cleared tells whether clear() has been called.                      *)

InitList ==
    /\ heap = [a \in {FAddr} |-> DefaultFeature]
    /\ rng = SeqRange(0, 0, ".")
    /\ sets = InitSets
    /\ edits = 0
    /\ stats = NoStats
    /\ last = [op |-> "init", log |-> <<>>, cleared |-> FALSE]

\* A.addFeature(f) for a feature f the caller has just constructed in F.
LAddFeature ==
    /\ Len(A) < MaxFeatures
    /\ \E f \in QueryFeatures :
          LET h == [heap EXCEPT ![FAddr] = f]
              r == addFeature(h, A, FAddr)
          IN  /\ heap' = r.heap
              /\ sets' = [sets EXCEPT !["A"].features_ = r.vec]
              /\ last' = [op |-> "addFeature", log |-> Append(last.log, f),
                           cleared |-> last.cleared]
    /\ UNCHANGED <<stats, rng, edits>>

\* A.clear()
LClear ==
    /\ LET r == clear(heap, A)
       IN  /\ heap' = r.heap
           /\ sets' = [sets EXCEPT !["A"].features_ = r.vec]
    /\ last' = [op |-> "clear", log |-> <<>>, cleared |-> TRUE]
    /\ UNCHANGED <<stats, rng, edits>>

NextList ==
    \/ LAddFeature
    \/ LClear

SpecList == InitList /\ [][NextList]_vars

----------------------------------------------------------------------------
(* Two MafStatisticsResult objects: R is filled, C is copy-constructed      *)
(* from R, either is assigned to the other, C is destroyed.                 *)

InitResult ==
    /\ heap = [a \in {FAddr} |-> DefaultFeature]
    /\ rng = SeqRange(0, 0, ".")
    /\ sets = InitSets
    /\ edits = 0
    /\ stats = [o \in StatIds |-> IF o = "R" THEN MafStatisticsResult ELSE NoResult]
    /\ last = [op |-> "init"]

\* o.setValue(tag, value), by any of the three overloads
MSetValue ==
    /\ \E o \in StatIds, tag \in Tags, number \in Numbers :
          /\ stats[o].live
          /\ stats' = [stats EXCEPT ![o] = setValue(@, tag, number)]
          /\ last' = [op |-> "setValue", obj |-> o, src |-> o]
    /\ UNCHANGED <<heap, sets, rng, edits>>

\* MafStatisticsResult C(R);
MCopyConstruct ==
    /\ ~stats["C"].live
    /\ stats' = [stats EXCEPT !["C"] = copyResult(stats["R"])]
    /\ last' = [op |-> "copy", obj |-> "C", src |-> "R"]
    /\ UNCHANGED <<heap, sets, rng, edits>>

\* o = s; for two different objects
MAssign ==
    /\ \E o \in StatIds, s \in StatIds :
          /\ o # s
          /\ stats[o].live /\ stats[s].live
          /\ stats' = [stats EXCEPT ![o] = assignResult(@, stats[s])]
          /\ last' = [op |-> "assign", obj |-> o, src |-> s]
    /\ UNCHANGED <<heap, sets, rng, edits>>

\* ~MafStatisticsResult of C
MDestroy ==
    /\ stats["C"].live
    /\ stats' = [stats EXCEPT !["C"] = NoResult]
    /\ last' = [op |-> "destroy", obj |-> "C", src |-> "C"]
    /\ UNCHANGED <<heap, sets, rng, edits>>

NextResult ==
    \/ MSetValue
    \/ MCopyConstruct
    \/ MAssign
    \/ MDestroy

SpecResult == InitResult /\ [][NextResult]_vars

----------------------------------------------------------------------------
(* One SimpleMafStatisticsResult object S, constructed with a name;         *)
(* last.cur is the number of the last setValue call that did not throw.     *)

S == stats["R"]

InitSimple ==
    /\ heap = [a \in {FAddr} |-> DefaultFeature]
    /\ rng = SeqRange(0, 0, ".")
    /\ sets = InitSets
    /\ edits = 0
    /\ \E n \in Tags :
          stats = [o \in StatIds |-> IF o = "R" THEN SimpleMafStatisticsResult(n)
                                     ELSE NoResult]
    /\ last = [op |-> "construct", cur |-> BppInteger(0)]

\* S.setValue(tag, value), by any of the three overloads
XSetValueTagged ==
    /\ \E tag \in Tags, number \in Numbers :
          LET r == simpleSetValueTagged(S, tag, number)
          IN  /\ stats' = [stats EXCEPT !["R"] = r.obj]
              /\ last' = [op |-> "setValueTagged", tag |-> tag, value |-> number,
                           threw |-> r.threw, before |-> S,
                           cur |-> IF r.threw THEN last.cur ELSE number]
    /\ UNCHANGED <<heap, sets, rng, edits>>

\* S.setValue(value), by any of the three overloads
XSetValue ==
    /\ \E number \in Numbers :
          /\ stats' = [stats EXCEPT !["R"] = simpleSetValue(@, number)]
          /\ last' = [op |-> "setValue", value |-> number, before |-> S,
                       cur |-> number]
    /\ UNCHANGED <<heap, sets, rng, edits>>

\* S.getValue(tag)
XGetValueTagged ==
    /\ \E tag \in Tags :
          LET ret == simpleGetValueTagged(S, tag)
          IN  last' = [op |-> "getValueTagged", tag |-> tag, ret |-> ret,
                       threw |-> (ret = <<"Exception">>), before |-> S,
                       cur |-> last.cur]
    /\ UNCHANGED <<stats, heap, sets, rng, edits>>

\* S.getValue()
XGetValue ==
    /\ S.name_ \in DOMAIN S.values_
    /\ last' = [op |-> "getValue", ret |-> simpleGetValue(S), before |-> S,
                 cur |-> last.cur]
    /\ UNCHANGED <<stats, heap, sets, rng, edits>>

NextSimple ==
    \/ XSetValueTagged
    \/ XSetValue
    \/ XGetValueTagged
    \/ XGetValue

SpecSimple == InitSimple /\ [][NextSimple]_vars

----------------------------------------------------------------------------
(* The operations on set objects. *)

Live(s) == sets[s].live

\* Every pointer a set holds points to a live object, and to no object that
\* another pointer of a set points to.
NoDangling ==
    \A s \in SetIds :
        /\ Elems(sets[s].features_) \subseteq DOMAIN heap \ {FAddr}
        /\ \A t \in SetIds :
              \A i \in 1 .. Len(sets[s].features_), j \in 1 .. Len(sets[t].features_) :
                  sets[s].features_[i] = sets[t].features_[j] => (s = t /\ i = j)

\* Addresses are opaque to the program: two states that differ only in the
\* addresses operator new returned are one state. After each operation the
\* objects are renumbered in the order sets A and B point to them.
RECURSIVE FirstOccurrences(_, _)
FirstOccurrences(ps, acc) ==
    IF ps = <<>> THEN acc
    ELSE IF Head(ps) = FAddr \/ Head(ps) \in Elems(acc)
         THEN FirstOccurrences(Tail(ps), acc)
         ELSE FirstOccurrences(Tail(ps), Append(acc, Head(ps)))

Renumber(h, ss) ==
    LET order == FirstOccurrences(ss["A"].features_ \o ss["B"].features_, <<>>)
        renamed(p) == IF p = FAddr THEN FAddr
                      ELSE CHOOSE k \in 1 .. Len(order) : order[k] = p
    IN  [heap |-> [a \in ({FAddr} \cap DOMAIN h)
                         \cup {k \in 1 .. Len(order) : order[k] \in DOMAIN h} |->
                      IF a = FAddr THEN h[FAddr] ELSE h[order[a]]],
         sets |-> [s \in SetIds |->
                      [ss[s] EXCEPT !.features_ =
                          [i \in 1 .. Len(ss[s].features_) |->
                              renamed(ss[s].features_[i])]]]]

\* The heap and the sets after an operation that left them as h and ss.
Store(h, ss) ==
    LET n == Renumber(h, ss)
    IN  heap' = n.heap /\ sets' = n.sets

\* s.addFeature(F), on a set of fewer than max elements.
AddFeature(s, max) ==
    /\ Live(s)
    /\ FAddr \in DOMAIN heap
    /\ Len(sets[s].features_) < max
    /\ LET r == addFeature(heap, sets[s].features_, FAddr)
       IN  Store(r.heap, [sets EXCEPT ![s].features_ = r.vec])
    /\ last' = [op |-> "addFeature", set |-> s]
    /\ UNCHANGED <<stats, rng, edits>>

\* s.clear()
Clear(s) ==
    /\ Live(s)
    /\ LET r == clear(heap, sets[s].features_)
       IN  Store(r.heap, [sets EXCEPT ![s].features_ = r.vec])
    /\ last' = [op |-> "clear", set |-> s]
    /\ UNCHANGED <<stats, rng, edits>>

\* SequenceFeatureSet s;
Construct(s) ==
    /\ ~Live(s)
    /\ sets' = [sets EXCEPT ![s] = NewSet(<<>>, "default")]
    /\ last' = [op |-> "construct", set |-> s]
    /\ UNCHANGED <<stats, heap, rng, edits>>

\* ~SequenceFeatureSet: clear()
Destroy(s) ==
    /\ Live(s)
    /\ LET r == clear(heap, sets[s].features_)
       IN  Store(r.heap, [sets EXCEPT ![s] = NoSet])
    /\ last' = [op |-> "destroy", set |-> s]
    /\ UNCHANGED <<stats, rng, edits>>

\* SequenceFeatureSet s(t);
CopyConstruct(s, t) ==
    /\ ~Live(s) /\ Live(t)
    /\ LET r == cloneAll(heap, sets[t].features_, <<>>)
       IN  Store(r.heap, [sets EXCEPT ![s] = NewSet(r.vec, "copy")])
    /\ last' = [op |-> "copy", set |-> s, src |-> t]
    /\ UNCHANGED <<stats, rng, edits>>

\* operator=: clear(), then the loop over sfs.features_ as it is by then.
assign(h, ss, s, t) ==
    LET c == clear(h, ss[s].features_)
        cleared == [ss EXCEPT ![s].features_ = c.vec]
        r == cloneAll(c.heap, cleared[t].features_, cleared[s].features_)
    IN  [heap |-> r.heap, sets |-> [cleared EXCEPT ![s].features_ = r.vec]]

\* s = t; the two may be the same object.
Assign(s, t) ==
    /\ Live(s) /\ Live(t)
    /\ LET r == assign(heap, sets, s, t)
       IN  Store(r.heap, r.sets)
    /\ last' = [op |-> "assign", set |-> s, src |-> t]
    /\ UNCHANGED <<stats, rng, edits>>

\* t = s.getSubsetFor...(...): the subset r arrives as the new set t.
Subset(s, t, r) ==
    /\ Store(r.heap, [sets EXCEPT ![t] = NewSet(r.vec, "subset")])
    /\ last' = [op |-> "subset", set |-> t, src |-> s]
    /\ UNCHANGED <<stats, rng, edits>>

GetSubsetForType(s, t) ==
    /\ Live(s) /\ ~Live(t)
    /\ \E type \in Types : Subset(s, t, getSubsetForType(heap, sets[s].features_, type))

GetSubsetForTypes(s, t) ==
    /\ Live(s) /\ ~Live(t)
    /\ Subset(s, t, getSubsetForTypes(heap, sets[s].features_, <<"exon", "gene">>))

GetSubsetForSequence(s, t) ==
    /\ Live(s) /\ ~Live(t)
    /\ \E id \in SeqIds : Subset(s, t, getSubsetForSequence(heap, sets[s].features_, id))

GetSubsetForSequences(s, t) ==
    /\ Live(s) /\ ~Live(t)
    /\ Subset(s, t, getSubsetForSequences(heap, sets[s].features_, <<"chr1", "chr2">>))

GetSubsetForRange(s, t) ==
    /\ Live(s) /\ ~Live(t)
    /\ \E c \in BOOLEAN : Subset(s, t, getSubsetForRange(heap, sets[s].features_, rng, c))

----------------------------------------------------------------------------
(* Two set objects A and B, constructed, filled, copied, assigned,          *)
(* subsetted, cleared and destroyed.                                        *)

\* The features the caller constructs and adds.
SetFeatures ==
    {setAttribute(BasicSequenceFeature("f1", "chr1", "gff", "gene", 0, 1, "+", -1),
                  "k", "v"),
     BasicSequenceFeature("f2", "chr2", "blast", "exon", 1, MaxCoord, "-", 1)}

Init ==
    /\ heap \in {[a \in {FAddr} |-> f] : f \in SetFeatures}
    /\ rng = SeqRange(0, 1, ".")
    /\ sets = InitSets
    /\ edits = 0
    /\ stats = NoStats
    /\ last = [op |-> "init"]

\* F = BasicSequenceFeature(...)
NewF ==
    /\ \E f \in SetFeatures : heap' = [heap EXCEPT ![FAddr] = f]
    /\ last' = [op |-> "newFeature"]
    /\ UNCHANGED <<stats, sets, rng, edits>>

Next ==
    \/ NewF
    \/ \E s \in SetIds : AddFeature(s, MaxFeatures)
    \/ \E s \in SetIds : Clear(s)
    \/ \E s \in SetIds : Construct(s)
    \/ \E s \in SetIds : Destroy(s)
    \/ \E s \in SetIds, t \in SetIds : CopyConstruct(s, t)
    \/ \E s \in SetIds, t \in SetIds : Assign(s, t)
    \/ \E s \in SetIds, t \in SetIds : GetSubsetForType(s, t)
    \/ \E s \in SetIds, t \in SetIds : GetSubsetForTypes(s, t)
    \/ \E s \in SetIds, t \in SetIds : GetSubsetForSequence(s, t)
    \/ \E s \in SetIds, t \in SetIds : GetSubsetForSequences(s, t)
    \/ \E s \in SetIds, t \in SetIds : GetSubsetForRange(s, t)

Spec == Init /\ [][Next]_vars

----------------------------------------------------------------------------
(* The caller's feature F and the copies of it: F is added to set A and     *)
(* mutated; A is cleared, copied and subsetted into the new set B.          *)

\* The feature the caller holds at the start.
BaseFeature == BasicSequenceFeature("f1", "chr1", "gff", "gene", 0, 1, "+", -1)

InitOwn ==
    /\ heap = [a \in {FAddr} |-> BaseFeature]
    /\ rng = SeqRange(0, MaxCoord, ".")
    /\ sets = InitSets
    /\ edits = 0
    /\ stats = NoStats
    /\ last = [op |-> "init"]

\* A mutator call on the caller's feature F.
Edit(f) ==
    /\ FAddr \in DOMAIN heap
    /\ edits < MaxEdits
    /\ heap' = [heap EXCEPT ![FAddr] = f]
    /\ edits' = edits + 1
    /\ last' = [op |-> "edit"]
    /\ UNCHANGED <<stats, sets, rng>>

FSetId == \E id \in Ids : Edit(setId(F, id))
FSetSequenceId == \E sid \in SeqIds : Edit(setSequenceId(F, sid))
FSetSource == \E source \in Sources : Edit(setSource(F, source))
FSetType == \E type \in Types : Edit(setType(F, type))
FSetScore == \E score \in Scores : Edit(setScore(F, score))
FInvert == Edit(invertFeature(F))
FSetAttribute == \E k \in AttrNames, v \in AttrValues : Edit(setAttribute(F, k, v))
FGetAttribute == \E k \in AttrNames : Edit(getAttributeMutable(F, k))
FRemoveAttribute == \E k \in AttrNames : Edit(removeAttribute(F, k))

NextOwn ==
    \/ FSetId
    \/ FSetSequenceId
    \/ FSetSource
    \/ FSetType
    \/ FSetScore
    \/ FInvert
    \/ FSetAttribute
    \/ FGetAttribute
    \/ FRemoveAttribute
    \/ AddFeature("A", MaxStored)
    \/ Clear("A")
    \/ CopyConstruct("B", "A")
    \/ GetSubsetForType("A", "B")
    \/ GetSubsetForTypes("A", "B")
    \/ GetSubsetForSequence("A", "B")
    \/ GetSubsetForSequences("A", "B")
    \/ GetSubsetForRange("A", "B")
    \/ Destroy("B")

SpecOwn == InitOwn /\ [][NextOwn]_vars

----------------------------------------------------------------------------
(* Properties *)

\* C2: F.overlap(G) is false whenever the sequence ids of F and G differ,
\* whatever the coordinates, and equals the positional overlap of the two
\* ranges when the sequence ids are equal.
Thm_C2 ==
    last.op = "overlapFeature" =>
        last.ret = IF getSequenceId(last.arg) # getSequenceId(F) THEN FALSE
                   ELSE RangeOverlap(AsRange(getRange(F)), AsRange(getRange(last.arg)))

\* F.overlap(G) was called with ranges that share a position, on different sequences.
Witness_C2 ==
    /\ last.op = "overlapFeature"
    /\ getSequenceId(last.arg) # getSequenceId(F)
    /\ RangeOverlap(AsRange(getRange(F)), AsRange(getRange(last.arg)))
    /\ last.ret = FALSE

Thm_C4 ==
    /\ last.op = "includes" =>
          last.ret = (rng.begin >= getStart(F) /\ rng.end <= getEnd(F))
    /\ last.op = "isIncludedIn" =>
          last.ret = (getStart(F) >= rng.begin /\ getEnd(F) <= rng.end)

\* isIncludedIn(R) was called with R at the feature's own coordinates and
\* another strand, and answered true.
Witness_C4 ==
    /\ last.op = "isIncludedIn"
    /\ AsRange(rng) = AsRange(getRange(F))
    /\ getStrand(rng) # getStrand(getRange(F))
    /\ last.ret = TRUE

\* C5: the strand stored in a SeqRange or a feature is always one of '+',
\* '-', '.', '?'; a constructor given any other character stores '.', and
\* given one of the four stores it unchanged.
Thm_C5 ==
    /\ getStrand(rng) \in Strands
    /\ getStrand(getRange(F)) \in Strands
    /\ last.op \in {"newRange", "newRangeFromRange"} =>
          getStrand(rng) = IF last.ch \in Strands THEN last.ch ELSE "."
    /\ last.op = "newFeature" =>
          getStrand(getRange(F)) = IF last.ch \in Strands THEN last.ch ELSE "."

\* A feature was constructed with the strand character 'x'.
Witness_C5 ==
    /\ last.op = "newFeature"
    /\ last.ch = "x"
    /\ getStrand(getRange(F)) = "."

Flip(s) == CASE s = "+" -> "-" [] s = "-" -> "+" [] OTHER -> s

\* C6: invert() maps '+' to '-' and '-' to '+' and leaves '.' and '?' alone;
\* two invert() calls restore the strand; invert() changes nothing but the
\* strand (not start, end, id, sequenceId, source, type, score, attributes).
Thm_C6 ==
    /\ last.op = "invertRange" =>
          /\ AsRange(rng) = AsRange(last.orig)
          /\ last.n = 1 => getStrand(rng) = Flip(getStrand(last.orig))
          /\ last.n = 2 => getStrand(rng) = getStrand(last.orig)
    /\ last.op = "invertFeature" =>
          /\ [F EXCEPT !.range_.strand_ = getStrand(last.orig.range_)] = last.orig
          /\ last.n = 1 => getStrand(getRange(F)) = Flip(getStrand(last.orig.range_))
          /\ last.n = 2 => getStrand(getRange(F)) = getStrand(last.orig.range_)

\* A feature on the '+' strand that carries an attribute was inverted twice.
Witness_C6 ==
    /\ last.op = "invertFeature"
    /\ last.n = 2
    /\ getStrand(last.orig.range_) = "+"
    /\ getAttributeList(F) # {}
    /\ getStart(F) # getEnd(F)

\* The features of a value sequence, as getFeature returns them.
Feat(values, i) == values[i][2]

\* C1: getSubsetForRange(R, complete) returns exactly the stored features, in
\* insertion order, with start >= R.start and end <= R.end when complete is
\* true, and exactly those with overlap(R) when complete is false. For a sole
\* non-empty feature: ending where R starts, it is left out; reaching into R
\* from before R's start, it is kept only when complete is false; lying
\* within R, it is kept when complete is true.
Thm_C1 ==
    last.op = "getSubsetForRange" =>
        LET R == last.range
            stored == last.before.values
            Kept(v) == IF last.complete
                       THEN getStart(v[2]) >= R.begin /\ getEnd(v[2]) <= R.end
                       ELSE overlapRange(v[2], R)
            f == Feat(stored, 1)
        IN  /\ Values(heap, B) = SelectSeq(stored, Kept)
            /\ (Len(stored) = 1 /\ getStart(f) < getEnd(f)) =>
                  /\ (getEnd(f) = R.begin /\ ~last.complete) => Len(B) = 0
                  /\ (getStart(f) < R.begin /\ R.begin < getEnd(f)
                        /\ getEnd(f) < R.end) => (Len(B) = 1) = ~last.complete
                  /\ (R.begin < getStart(f) /\ getEnd(f) < R.end /\ last.complete)
                        => Len(B) = 1

\* getSubsetForRange(R, false) was called on a set of two features, the
\* first ending where R starts, the second reaching into R: only the second
\* came back.
Witness_C1 ==
    /\ last.op = "getSubsetForRange"
    /\ ~last.complete
    /\ Len(A) = 2 /\ Len(B) = 1
    /\ getStart(deref(heap, A[1])) < getEnd(deref(heap, A[1]))
    /\ getEnd(deref(heap, A[1])) = last.range.begin
    /\ getStart(deref(heap, A[2])) < last.range.begin
    /\ last.range.begin < getEnd(deref(heap, A[2]))
    /\ getEnd(deref(heap, A[2])) < last.range.end
    /\ deref(heap, B[1]) = deref(heap, A[2])

\* C9: every query (the five getSubsetFor*, getSequences, getTypes and the
\* two fillRangeCollection*) leaves the receiver as it was: the same number
\* of features, in the same order, with the same fields and attributes.
Thm_C9 ==
    Pending =>
        /\ sets["A"] = last.before.self
        /\ Values(heap, A) = last.before.values

\* A query by type returned one of the two features of a set.
Witness_C9 ==
    /\ last.op = "getSubsetForType"
    /\ Len(A) = 2 /\ Len(B) = 1
    /\ getAttributeList(deref(heap, A[1])) = {}

\* The caller's feature as the caller reads it.
FValue(h) == IF FAddr \in DOMAIN h THEN <<"live", h[FAddr]>> ELSE <<"deleted">>

\* The other of the two set objects.
Other(s) == CHOOSE t \in SetIds : t # s

\* C7: the element addFeature(F) stores is a copy of F of its own: a later
\* mutator call on F (a setter, invert, setAttribute, removeAttribute, the
\* non-const getAttribute) changes no stored element, and no operation on a
\* set (addFeature, clear, subsetting, copy, destruction) changes F.
Thm_C7 ==
    [][ /\ last'.op = "edit" =>
              \A s \in SetIds :
                  /\ sets'[s].live = sets[s].live
                  /\ Values(heap', sets'[s].features_) = Values(heap, sets[s].features_)
        /\ last'.op \in {"addFeature", "clear", "copy", "subset", "destroy"} =>
              FValue(heap') = FValue(heap)
        /\ last'.op = "addFeature" =>
              LET v == Values(heap', sets'[last'.set].features_)
              IN  v = Append(Values(heap, sets[last'.set].features_), FValue(heap))
      ]_vars

\* F was added to A twice and then given an attribute: A still holds F as it was.
Witness_C7 ==
    /\ last.op = "edit"
    /\ Len(A) = 2
    /\ deref(heap, A[1]) = BaseFeature /\ deref(heap, A[2]) = BaseFeature
    /\ getAttributeList(F) # {}

\* C8: a set returned by a getSubsetFor* operation is a snapshot of its own:
\* whatever is done to the parent afterwards (addFeature, clear, assignment
\* into the parent, its destruction and construction anew) leaves the number,
\* the order, the fields and the attributes of the subset's features unchanged.
Thm_C8 ==
    [][ \A t \in SetIds :
            ( /\ sets[t].live /\ sets[t].how = "subset"
              /\ last'.op \in {"addFeature", "clear", "assign", "destroy", "construct"}
              /\ last'.set = Other(t) )
            => /\ sets'[t].live
               /\ Values(heap', sets'[t].features_) = Values(heap, sets[t].features_)
               /\ \A i \in 1 .. Len(sets'[t].features_) :
                      sets'[t].features_[i] \in DOMAIN heap'
      ]_vars

\* A subset of two different features is held, and its parent has just been destroyed.
Witness_C8 ==
    \E t \in SetIds :
        /\ sets[t].live /\ sets[t].how = "subset"
        /\ Len(sets[t].features_) = 2
        /\ deref(heap, sets[t].features_[1]) # deref(heap, sets[t].features_[2])
        /\ getAttributeList(deref(heap, sets[t].features_[2])) # {}
        /\ last.op = "destroy" /\ last.set = Other(t)

\* C10: copy construction and assignment, the assignment of a set to itself
\* included, leave in the target features equal in value, order and number to
\* those the source held before, leave the source unchanged, and no later
\* addFeature or clear on one of the two sets shows in the other.
Cex_C10 ==
    [][ /\ last'.op \in {"copy", "assign"} =>
              /\ Values(heap', sets'[last'.set].features_)
                    = Values(heap, sets[last'.src].features_)
              /\ Values(heap', sets'[last'.src].features_)
                    = Values(heap, sets[last'.src].features_)
        /\ last'.op \in {"addFeature", "clear"} =>
              Values(heap', sets'[Other(last'.set)].features_)
                    = Values(heap, sets[Other(last'.set)].features_)
      ]_vars

\* C11: getSubsetForType(t) and getSubsetForSequence(s) return exactly the
\* stored features whose type (sequence id) equals the argument, and
\* getSubsetForTypes(ts) and getSubsetForSequences(ss) exactly those whose type
\* (sequence id) equals some entry of the list; the receiver's order is kept,
\* a feature comes back once per stored occurrence even when the list repeats
\* a value, and an empty list gives an empty subset.
Thm_C11 ==
    LET stored == last.before.values
        InList(x) == \E i \in 1 .. Len(last.arg) : last.arg[i] = x
    IN  /\ last.op = "getSubsetForType" =>
              Values(heap, B) = SelectSeq(stored, LAMBDA v : getType(v[2]) = last.arg)
        /\ last.op = "getSubsetForSequence" =>
              Values(heap, B) = SelectSeq(stored, LAMBDA v : getSequenceId(v[2]) = last.arg)
        /\ last.op = "getSubsetForTypes" =>
              /\ Values(heap, B) = SelectSeq(stored, LAMBDA v : InList(getType(v[2])))
              /\ last.arg = <<>> => getNumberOfFeatures(B) = 0
        /\ last.op = "getSubsetForSequences" =>
              /\ Values(heap, B) = SelectSeq(stored, LAMBDA v : InList(getSequenceId(v[2])))
              /\ last.arg = <<>> => getNumberOfFeatures(B) = 0

\* getSubsetForTypes was called with a list naming one type twice, on a set
\* of two different features of that type: both came back, once each, in order.
Witness_C11 ==
    /\ last.op = "getSubsetForTypes"
    /\ last.arg = <<"gene", "gene">>
    /\ Len(A) = 2 /\ Len(B) = 2
    /\ deref(heap, A[1]) # deref(heap, A[2])
    /\ deref(heap, B[1]) = deref(heap, A[1])
    /\ deref(heap, B[2]) = deref(heap, A[2])

\* C12: getSequences() is the set of the sequence ids of the stored features
\* and getTypes() the set of their types: a value is in the result iff some
\* stored feature carries it, and both are empty when the set is empty.
Thm_C12 ==
    LET stored == last.before.values
    IN  /\ last.op = "getSequences" =>
              /\ \A i \in 1 .. Len(stored) : getSequenceId(Feat(stored, i)) \in last.ret
              /\ \A x \in last.ret :
                    \E i \in 1 .. Len(stored) : getSequenceId(Feat(stored, i)) = x
              /\ Len(stored) = 0 => last.ret = {}
        /\ last.op = "getTypes" =>
              /\ \A i \in 1 .. Len(stored) : getType(Feat(stored, i)) \in last.ret
              /\ \A x \in last.ret :
                    \E i \in 1 .. Len(stored) : getType(Feat(stored, i)) = x
              /\ Len(stored) = 0 => last.ret = {}

\* getTypes() was called on two features of one sequence and of two types.
Witness_C12 ==
    /\ last.op = "getTypes"
    /\ Len(A) = 2
    /\ getSequenceId(deref(heap, A[1])) = getSequenceId(deref(heap, A[2]))
    /\ getType(deref(heap, A[1])) # getType(deref(heap, A[2]))
    /\ Cardinality(last.ret) = 2

\* C13: after setAttribute(k, v) the read-only getAttribute(k) returns v,
\* whatever k held before, and k is in getAttributeList(); after
\* removeAttribute(k) the read-only getAttribute(k) returns NO_ATTRIBUTE_SET
\* and k is not in getAttributeList(); removeAttribute of an absent name
\* changes nothing; neither changes what any other name k' # k holds.
Thm_C13 ==
    LET k == last.name
        OthersKept == \A k2 \in AttrKeys \ {k} :
                          getAttribute(F, k2) = getAttribute(last.before, k2)
    IN  /\ last.op = "setAttribute" =>
              /\ getAttribute(F, k) = Entry(last.value)
              /\ k \in getAttributeList(F)
              /\ OthersKept
        /\ last.op = "removeAttribute" =>
              /\ getAttribute(F, k) = NO_ATTRIBUTE_SET
              /\ k \notin getAttributeList(F)
              /\ k \notin getAttributeList(last.before) => F = last.before
              /\ OthersKept

\* setAttribute(k, "w") was called on a feature where k held "v" and another
\* name held a value.
Witness_C13 ==
    /\ last.op = "setAttribute"
    /\ getAttribute(last.before, last.name) = Entry("v")
    /\ last.value = "w"
    /\ getAttribute(F, last.name) = Entry("w")
    /\ \E k2 \in AttrKeys \ {last.name} : getAttribute(F, k2) = Entry("v")

\* C14: the read-only getAttribute(name) of an absent name returns
\* NO_ATTRIBUTE_SET and changes neither getAttributeList() nor the feature;
\* the non-const getAttribute(name) of an absent name creates the attribute
\* with the empty string, so that name is in getAttributeList() and the
\* read-only getAttribute(name) then returns that empty string and not
\* NO_ATTRIBUTE_SET; of a present name it changes nothing.
Thm_C14 ==
    LET k == last.name
        absent == k \notin getAttributeList(last.before)
    IN  /\ last.op = "getAttribute" =>
              /\ absent => last.ret = NO_ATTRIBUTE_SET
              /\ getAttributeList(F) = getAttributeList(last.before)
              /\ F = last.before
        /\ last.op = "getAttributeMutable" =>
              IF absent
              THEN /\ getAttributeList(F) = getAttributeList(last.before) \cup {k}
                   /\ getAttribute(F, k) = Entry("")
                   /\ getAttribute(F, k) # NO_ATTRIBUTE_SET
                   /\ \A k2 \in AttrKeys \ {k} :
                          getAttribute(F, k2) = getAttribute(last.before, k2)
              ELSE F = last.before

\* The non-const getAttribute was called with a name the feature did not
\* hold, another name holding a value.
Witness_C14 ==
    /\ last.op = "getAttributeMutable"
    /\ last.name \notin getAttributeList(last.before)
    /\ getAttributeList(last.before) # {}
    /\ getAttributeList(F) = AttrKeys

\* C15: for a feature constructed with start <= end, in every state size()
\* is end - start, isEmpty() holds iff start = end, isPoint() holds iff
\* end = start + 1, the two are never both true, and no setter, invert() or
\* attribute operation changes size().
Thm_C15 ==
    /\ getStart(F) <= getEnd(F)
    /\ size(F) + getStart(F) = getEnd(F)
    /\ isEmpty(F) <=> (size(F) = 0)
    /\ isEmpty(F) <=> (getStart(F) = getEnd(F))
    /\ isPoint(F) <=> (size(F) = 1)
    /\ isPoint(F) <=> (getEnd(F) = getStart(F) + 1)
    /\ ~(isEmpty(F) /\ isPoint(F))
    /\ last.op # "init" => size(F) = size(last.before)

\* An empty feature was inverted: it is empty and no point.
Witness_C15 ==
    /\ last.op = "invert"
    /\ getStart(F) = getEnd(F) /\ getStart(F) > 0
    /\ isEmpty(F) /\ ~isPoint(F)
    /\ getStrand(getRange(F)) # getStrand(getRange(last.before))

\* C16: a set is created empty; after any addFeature and clear calls,
\* getNumberOfFeatures() is the number of addFeature calls since creation or
\* the last clear(), isEmpty() holds iff that number is 0, and getFeature(i)
\* and operator[](i) both return a feature equal in value to the argument of
\* the (i+1)-th of those calls: duplicates are kept and nothing earlier is
\* reordered, replaced or dropped.
Thm_C16 ==
    /\ last.op = "init" => getNumberOfFeatures(A) = 0 /\ isEmptySet(A)
    /\ getNumberOfFeatures(A) = Len(last.log)
    /\ isEmptySet(A) <=> (Len(last.log) = 0)
    /\ \A i \in 1 .. Len(last.log) :
          /\ A[i] \in DOMAIN heap
          /\ getFeature(heap, A, i) = last.log[i]
          /\ operatorIndex(heap, A, i) = last.log[i]

\* After a clear(), the same feature was added twice: the set holds it twice.
Witness_C16 ==
    /\ last.op = "addFeature"
    /\ last.cleared
    /\ Len(last.log) = 2 /\ last.log[1] = last.log[2]
    /\ getNumberOfFeatures(A) = 2
    /\ A[1] # A[2]
    /\ getFeature(heap, A, 1) = getFeature(heap, A, 2)

\* The five operations that return a subset.
SubsetOps == {"getSubsetForType", "getSubsetForTypes", "getSubsetForSequence",
              "getSubsetForSequences", "getSubsetForRange"}

\* C17: every getSubsetFor* operation, getSubsetForRange with either flag,
\* returns a valid set on any receiver; on an empty receiver, and when no
\* stored feature passes the filter, the set returned has
\* getNumberOfFeatures() = 0 and isEmpty() true.
Thm_C17 ==
    last.op \in SubsetOps =>
        LET stored == last.before.values
            Passes(f) ==
                CASE last.op = "getSubsetForType" -> getType(f) = last.arg
                  [] last.op = "getSubsetForTypes" -> Contains(last.arg, getType(f))
                  [] last.op = "getSubsetForSequence" -> getSequenceId(f) = last.arg
                  [] last.op = "getSubsetForSequences" ->
                         Contains(last.arg, getSequenceId(f))
                  [] last.op = "getSubsetForRange" ->
                         IF last.complete THEN isIncludedIn(f, last.range)
                         ELSE overlapRange(f, last.range)
            NoneMatches == \A i \in 1 .. Len(stored) : ~Passes(Feat(stored, i))
        IN  /\ sets["B"].live
            /\ Elems(B) \subseteq DOMAIN heap
            /\ NoneMatches => (getNumberOfFeatures(B) = 0 /\ isEmptySet(B))
            /\ Len(stored) = 0 => (getNumberOfFeatures(B) = 0 /\ isEmptySet(B))

\* getSubsetForSequences was called with an empty list on a set of two
\* features: an empty set came back.
Witness_C17 ==
    /\ last.op = "getSubsetForSequences"
    /\ last.arg = <<>>
    /\ Len(A) = 2
    /\ sets["B"].live /\ isEmptySet(B)

\* C18: fillRangeCollection(out) makes one addRange call on out per stored
\* feature, in insertion order, with that feature's range, and
\* fillRangeCollectionForSequence(seqId, out) does so for the features whose
\* sequence id equals seqId only; what out had received before the call is
\* still there after it, and on an empty set out is left as it was.
Thm_C18 ==
    LET stored == last.before.values
        RangesOf(vs) == [i \in 1 .. Len(vs) |-> getRange(Feat(vs, i))]
    IN  /\ last.op = "fillRangeCollection" =>
              /\ last.ret = last.coords \o RangesOf(stored)
              /\ Len(stored) = 0 => last.ret = last.coords
        /\ last.op = "fillRangeCollectionForSequence" =>
              /\ last.ret = last.coords \o
                    RangesOf(SelectSeq(stored, LAMBDA v : getSequenceId(v[2]) = last.arg))
              /\ Len(stored) = 0 => last.ret = last.coords
        /\ last.op \in {"fillRangeCollection", "fillRangeCollectionForSequence"} =>
              /\ Len(last.ret) >= Len(last.coords)
              /\ SubSeq(last.ret, 1, Len(last.coords)) = last.coords

\* fillRangeCollection was called on two features of different ranges with
\* a collection that held a range: the collection holds three, in order.
Witness_C18 ==
    /\ last.op = "fillRangeCollection"
    /\ Len(last.coords) = 1
    /\ Len(A) = 2
    /\ getRange(deref(heap, A[1])) # getRange(deref(heap, A[2]))
    /\ last.ret = <<last.coords[1], getRange(deref(heap, A[1])),
                    getRange(deref(heap, A[2]))>>

\* What a reader of a result object can tell: for every tag, hasValue and
\* getValue, and getAvailableTags.
Content(r) ==
    [tags |-> getAvailableTags(r),
     has |-> [tag \in Tags |-> hasValue(r, tag)],
     value |-> [tag \in Tags |-> getValueTagged(r, tag)]]

\* C19: copy construction and assignment of a MafStatisticsResult keep the
\* content: the target then reports hasValue(tag) for exactly the tags of
\* the source, the same getAvailableTags() and the same getValue(tag) for
\* each of them; the source is unchanged, and a later setValue on one of the
\* two objects does not show in the other.
Cex_C19 ==
    [][ /\ last'.op \in {"copy", "assign"} =>
              /\ Content(stats'[last'.obj]) = Content(stats[last'.src])
              /\ stats'[last'.src] = stats[last'.src]
        /\ last'.op = "setValue" =>
              \A o \in StatIds \ {last'.obj} : stats'[o] = stats[o]
      ]_vars

\* Of C19, what the code does keep: the source of a copy or an assignment
\* is unchanged and setValue on one object does not show in the other.
SourceKept ==
    [][ /\ last'.op \in {"copy", "assign"} => stats'[last'.src] = stats[last'.src]
        /\ last'.op = "setValue" =>
              \A o \in StatIds \ {last'.obj} : stats'[o] = stats[o]
      ]_vars

\* What the copy constructor and operator= leave in the target: no tag at all.
TargetEmptied ==
    [][ last'.op \in {"copy", "assign"} => getAvailableTags(stats'[last'.obj]) = {} ]_vars

\* C20: a SimpleMafStatisticsResult constructed with name n has, after the
\* construction and any setValue calls, exactly the tag n, and getValue()
\* returns the number of the last setValue that did not throw (the integer 0
\* at first); setValue(tag, v) with tag # n throws and changes nothing,
\* setValue(n, v) does what setValue(v) does, and getValue(tag) with tag # n
\* throws and creates no entry for tag.
Thm_C20 ==
    /\ getAvailableTags(S) = {S.name_}
    /\ simpleGetValue(S) = <<"value", last.cur>>
    /\ last.op = "construct" => simpleGetValue(S) = <<"value", BppInteger(0)>>
    /\ last.op = "setValueTagged" =>
          /\ last.threw <=> (last.tag # S.name_)
          /\ last.threw => S = last.before
          /\ ~last.threw => S = simpleSetValue(last.before, last.value)
    /\ last.op = "setValue" => simpleGetValue(S) = <<"value", last.value>>
    /\ last.op = "getValueTagged" =>
          /\ last.threw <=> (last.tag # S.name_)
          /\ S = last.before
          /\ last.threw => ~hasValue(S, last.tag)
          /\ ~last.threw => last.ret = <<"value", last.cur>>
    /\ last.op = "getValue" => (last.ret = <<"value", last.cur>> /\ S = last.before)

\* setValue was called with a tag other than the name, after a setValue had
\* stored a double: it threw and the double is still the value.
Witness_C20 ==
    /\ last.op = "setValueTagged"
    /\ last.tag # S.name_
    /\ last.threw
    /\ last.cur = BppDouble(1)
    /\ last.value # last.cur
    /\ simpleGetValue(S) = <<"value", BppDouble(1)>>

\* The same, for the copy construction and the assignment of one set to another.
CopyOfAnother ==
    [][ /\ (last'.op \in {"copy", "assign"} /\ last'.set # last'.src) =>
              /\ Values(heap', sets'[last'.set].features_)
                    = Values(heap, sets[last'.src].features_)
              /\ Values(heap', sets'[last'.src].features_)
                    = Values(heap, sets[last'.src].features_)
        /\ last'.op \in {"addFeature", "clear"} =>
              Values(heap', sets'[Other(last'.set)].features_)
                    = Values(heap, sets[Other(last'.set)].features_)
      ]_vars

====
